---- MODULE Spec2Model ----
(***************************************************************************)
(* icon_extractor (src/src/main.rs): extract_icon and the command-line     *)
(* main, as a state machine over a small model of the Win32 handle table   *)
(* and of the file system.                                                 *)
(*                                                                         *)
(* Every OS call of extract_icon is one action, so that the lifetime of    *)
(* each handle is visible between the calls.  A pixel buffer is modelled   *)
(* by its length in bytes; its contents play no part in the control flow.  *)
(* Machine integers are scaled: LongBits bits stand for the 32 bits of     *)
(* LONG, i32 and u32, and twice as many for the 64 bits of usize, which    *)
(* keeps the relation between the ranges that the casts and the product    *)
(* of lines 70-110 depend on.                                              *)
(***************************************************************************)
EXTENDS Integers, Sequences, FiniteSets, TLC

VARIABLES
    locals,     \* call id -> the local variables of that extract_icon call
    handles,    \* the OS handle table: handle h is handles[h]
    fs,         \* output directory -> state of <dir>/icon.png
    main        \* the state of the command-line program

vars == <<locals, handles, fs, main>>

----------------------------------------------------------------------------
(* Bounds *)

\* Number of extract_icon calls the host process makes.
MaxCalls == 2
\* Largest pixel count (width * height) of an icon bitmap in the file system.
MaxPixels == 2
\* SpecDecode: largest width and height, and slack of the buffer lengths tried.
MaxDim == 3
MaxSlack == 5
\* Bits of the scaled LONG / i32 / u32 (32 in the program).
LongBits == 4

Calls == 1..MaxCalls

----------------------------------------------------------------------------
(* Paths: a file name is a sequence of one-character strings *)

NULL == 0

\* Integer types: LONG (bmWidth, bmHeight), i32, u32 and usize (x86_64)
UsizeBits == 2 * LongBits
LongMax == 2^(LongBits - 1) - 1

\* `x as usize` of an i32: sign-extended, then read as unsigned
AsUsize(x) == x % 2^UsizeBits

\* AsI32 keeping one bit less (a cast to a narrower type)
AsI32_Narrow(x) ==
    LET m == x % 2^(LongBits - 1)
    IN  IF m > (2^(LongBits - 2) - 1) THEN m - 2^(LongBits - 1) ELSE m

\* `x as i32` of a usize: the low bits, read as signed
AsI32(x) ==
    LET m == x % 2^LongBits
    IN  IF m > LongMax THEN m - 2^LongBits ELSE m

\* `x as u32` of a usize: the low bits
AsU32(x) == x % 2^LongBits

Names ==
    { <<"a", ".", "e", "x", "e">>,
      <<"a", ".", "E", "x", "E">>,
      <<"a", ".", "t", "x", "t">>,
      <<"a", ".", "e", "x", "e", ".", "t">>,
      <<"a", ".", "e", "x">>,
      <<".", "e", "x", "e">>,
      <<"e", "x", "e">>,
      <<"a", ".">> }

\* u8::to_ascii_lowercase on the letters that occur in Names
ToAsciiLower(ch) ==
    CASE ch = "A" -> "a"
      [] ch = "E" -> "e"
      [] ch = "X" -> "x"
      [] ch = "T" -> "t"
      [] OTHER -> ch

\* str::eq_ignore_ascii_case: same length, bytes equal after lowering
EqIgnoreAsciiCase(s, t) ==
    /\ Len(s) = Len(t)
    /\ \A i \in 1..Len(s) : ToAsciiLower(s[i]) = ToAsciiLower(t[i])

\* Index of the last "." of the name, 0 when it has none
LastDot(name) ==
    LET dots == {i \in 1..Len(name) : name[i] = "."}
    IN  IF dots = {} THEN 0 ELSE CHOOSE i \in dots : \A j \in dots : j <= i

\* Path::extension: [some |-> FALSE] when the name has no "." or when its only
\* "." is its first character, else the part after the last "." (maybe empty)
Extension(name) ==
    LET d == LastDot(name)
    IN  IF d <= 1
        THEN [some |-> FALSE, ext |-> <<>>]
        ELSE [some |-> TRUE, ext |-> SubSeq(name, d + 1, Len(name))]

\* Icon resources: the first icon of a file, if any.  A monochrome icon has a
\* mask plane only (GetIconInfo gives hbmColor = NULL for it).
NoIcon == [present |-> FALSE, w |-> 0, h |-> 0, color |-> FALSE]

IconSizes ==
    {wh \in (1..MaxPixels) \X (1..MaxPixels) : wh[1] * wh[2] <= MaxPixels}

Icons ==
    {[present |-> TRUE, w |-> wh[1], h |-> wh[2], color |-> TRUE] : wh \in IconSizes}
    \cup {[present |-> TRUE, w |-> 1, h |-> 1, color |-> FALSE]}

\* The modelled file system: what extract_icon may be given as file_path, a
\* path and what is found there.  Two paths may be missing; every name may be
\* an existing file without icon; a.exe may hold any icon of Icons; a.ExE and
\* a.txt may hold a 1 x 1 color icon.
MissingNames ==
    { <<"a", ".", "e", "x", "e">>,
      <<"a", ".", "t", "x", "t">> }

SmallIconNames ==
    { <<"a", ".", "E", "x", "E">>,
      <<"a", ".", "t", "x", "t">> }

SmallIcon == [present |-> TRUE, w |-> 1, h |-> 1, color |-> TRUE]

Files ==
    {[name |-> n, exists |-> FALSE, icon |-> NoIcon] : n \in MissingNames}
    \cup {[name |-> n, exists |-> TRUE, icon |-> NoIcon] : n \in Names}
    \cup {[name |-> <<"a", ".", "e", "x", "e">>, exists |-> TRUE, icon |-> i] :
             i \in Icons}
    \cup {[name |-> n, exists |-> TRUE, icon |-> SmallIcon] : n \in SmallIconNames}

OutputDirs == {"out"}

\* Satisfied without the extension test
Satisfied_ExistsOnly(file_path) == file_path.exists

\* lines 20-23
Satisfied(file_path) ==
    /\ file_path.exists
    /\ LET e == Extension(file_path.name)
       IN  IF e.some THEN EqIgnoreAsciiCase(e.ext, <<"e", "x", "e">>) ELSE FALSE

----------------------------------------------------------------------------
(* The OS handle table.  Handles are never reused: handle h is handles[h],   *)
(* and rel counts the release calls (DestroyIcon, DeleteObject, ReleaseDC)   *)
(* made on it, so a leak is rel = 0 and a double release is rel = 2; by is    *)
(* the set of calls that passed it to an OS function, and late counts the    *)
(* uses made of it after its release.                                        *)

HandleRec(kind, owner, w, h, color) ==
    [kind |-> kind, owner |-> owner, w |-> w, h |-> h, color |-> color, rel |-> 0,
     by |-> {}, late |-> 0]

IsHandle(hs, h, kind) == h \in 1..Len(hs) /\ hs[h].kind = kind

IsLive(hs, h, kind) == IsHandle(hs, h, kind) /\ hs[h].rel = 0

\* Call c passes h to an OS function that reads it
OsUse(hs, c, h, kind) ==
    IF IsHandle(hs, h, kind)
    THEN [hs EXCEPT ![h].by = @ \cup {c},
                    ![h].late = IF hs[h].rel > 0 THEN @ + 1 ELSE @]
    ELSE hs

\* DestroyIcon / DeleteObject / ReleaseDC on h by call c: no effect on a value
\* that is NULL or a handle of another kind
OsRelease(hs, c, h, kind) ==
    IF IsHandle(hs, h, kind)
    THEN [hs EXCEPT ![h].rel = @ + 1, ![h].by = @ \cup {c}]
    ELSE hs

\* ExtractIconExW(file, 0, &hicon_large, NULL, 1): the outcomes.  A file with
\* an icon gives one new icon handle, or zero icons when the OS fails; a file
\* without icon gives zero icons, or a count without a handle (the case the
\* code guards with is_null).
OsExtractIconExW(hs, c, file) ==
    {[extracted |-> 0, hicon |-> NULL, hs |-> hs]}
    \cup
    (IF file.icon.present
     THEN {[extracted |-> 1, hicon |-> Len(hs) + 1,
            hs |-> Append(hs, HandleRec("icon", c, file.icon.w, file.icon.h,
                                        file.icon.color))]}
     ELSE {[extracted |-> 1, hicon |-> NULL, hs |-> hs]})

\* GetIconInfo(hicon, &icon_info): 0 on failure; on success the caller owns a
\* new mask bitmap and, unless the icon is monochrome, a new color bitmap.
OsGetIconInfo(hs, c, hicon) ==
    {[ok |-> 0, hbmColor |-> NULL, hbmMask |-> NULL, hs |-> hs]}
    \cup
    (IF IsLive(hs, hicon, "icon")
     THEN LET i == hs[hicon]
          IN  IF i.color
              THEN {[ok |-> 1, hbmColor |-> Len(hs) + 1, hbmMask |-> Len(hs) + 2,
                     hs |-> Append(Append(hs, HandleRec("bitmap", c, i.w, i.h, TRUE)),
                                   HandleRec("bitmap", c, i.w, i.h, FALSE))]}
              ELSE {[ok |-> 1, hbmColor |-> NULL, hbmMask |-> Len(hs) + 1,
                     hs |-> Append(hs, HandleRec("bitmap", c, i.w, 2 * i.h, FALSE))]}
     ELSE {})

\* GetObjectW(hbm, sizeof(BITMAP), &bmp): 0 on failure, else the bitmap's size
OsGetObjectW(hs, hbm) ==
    {[ok |-> 0, bmWidth |-> 0, bmHeight |-> 0]}
    \cup
    (IF IsLive(hs, hbm, "bitmap")
     THEN {[ok |-> 1, bmWidth |-> hs[hbm].w, bmHeight |-> hs[hbm].h]}
     ELSE {})

\* A GetDC that hands out one cached device context while it is live
OsGetDC_Cached(hs, c) ==
    {[hdc |-> NULL, hs |-> hs]}
    \cup
    (IF \E h \in 1..Len(hs) : IsLive(hs, h, "dc")
     THEN {[hdc |-> h, hs |-> hs] : h \in {k \in 1..Len(hs) : IsLive(hs, k, "dc")}}
     ELSE {[hdc |-> Len(hs) + 1, hs |-> Append(hs, HandleRec("dc", c, 0, 0, FALSE))]})

\* GetDC(NULL): NULL on failure, else a new device context of the screen
OsGetDC(hs, c) ==
    {[hdc |-> NULL, hs |-> hs],
     [hdc |-> Len(hs) + 1, hs |-> Append(hs, HandleRec("dc", c, 0, 0, FALSE))]}

\* GetDIBits(hdc, hbm, 0, lines, bits, &bmi, DIB_RGB_COLORS): the number of
\* scan lines copied, 0 on failure
OsGetDIBits(hs, hdc, hbm, lines) ==
    {0}
    \cup
    (IF IsLive(hs, hdc, "dc") /\ IsLive(hs, hbm, "bitmap") /\ lines > 0
     THEN {IF lines <= hs[hbm].h THEN lines ELSE hs[hbm].h}
     ELSE {})

----------------------------------------------------------------------------
(* The file system under the output directory *)

Dirs == OutputDirs \cup {"tmp"}

Absent == [state |-> "absent", writer |-> 0, width |-> 0, height |-> 0]

\* Path::join(output_dir, "icon.png")
Join(dir, name) == <<dir, name>>

\* FromRaw rejecting a buffer of exactly the needed length
FromRaw_Strict(width, height, len) ==
    IF width * height * 4 < len
    THEN [some |-> TRUE, width |-> width, height |-> height, len |-> len]
    ELSE [some |-> FALSE, width |-> 0, height |-> 0, len |-> 0]

\* ImageBuffer::from_raw(width, height, buf): None unless the buffer holds at
\* least width * height * 4 bytes
FromRaw(width, height, len) ==
    IF width * height * 4 <= len
    THEN [some |-> TRUE, width |-> width, height |-> height, len |-> len]
    ELSE [some |-> FALSE, width |-> 0, height |-> 0, len |-> 0]

\* img.save(path): File::create, then the PNG encoder writes through it.  The
\* outcomes: the file cannot be created (nothing changes), the file is created
\* (truncated) and a write fails, or the whole image is written.
SaveOutcomes == {"create_failed", "write_failed", "ok"}

OsSave(files, c, dir, img, outcome) ==
    CASE outcome = "create_failed" -> files
      [] outcome = "write_failed" ->
            [files EXCEPT ![dir] = [state |-> "partial", writer |-> c,
                                    width |-> 0, height |-> 0]]
      [] outcome = "ok" ->
            [files EXCEPT ![dir] = [state |-> "complete", writer |-> c,
                                    width |-> img.width, height |-> img.height]]

----------------------------------------------------------------------------
(* The error values of extract_icon (anyhow messages; the code has no kinds) *)

ErrNotValidExecutable == "The provided file is not a valid executable"
ErrExtractIconExW == "ExtractIconExW failed for file"
ErrGetIconInfo == "GetIconInfo failed."
ErrGetObjectW_Copied == "GetIconInfo failed."
ErrGetObjectW == "GetObjectW failed."
ErrGetDIBits == "GetDIBits failed."
ErrImageBuffer == "Failed to create ImageBuffer"
ErrSave == "ImageError"

----------------------------------------------------------------------------
(* The locals of one extract_icon call *)

NoFile == [name |-> <<>>, exists |-> FALSE, icon |-> NoIcon]
NoResult == [status |-> "none", path |-> <<>>, err |-> ""]

IdleLocals ==
    [pc |-> "idle", file_path |-> NoFile, output_dir |-> "",
     extracted |-> 0, hicon_large |-> NULL, hicon |-> NULL,
     icon_info |-> [hbmColor |-> NULL, hbmMask |-> NULL],
     bmp |-> [bmWidth |-> 0, bmHeight |-> 0],
     width |-> 0, height |-> 0,
     bmp_info |-> [biWidth |-> 0, biHeight |-> 0, biBitCount |-> 0],
     pixels |-> 0, hdc |-> NULL, ret |-> 0,
     img |-> [some |-> FALSE, width |-> 0, height |-> 0, len |-> 0],
     result |-> NoResult, steps |-> <<>>, released |-> <<>>]

\* The call as entered with its two arguments
Entered(file, dir) ==
    [IdleLocals EXCEPT !.pc = "validate", !.file_path = file, !.output_dir = dir]

\* Bail that records the error and does not return
Bail_NoReturn(l, msg) ==
    [l EXCEPT !.pc = "failed",
              !.result = [status |-> "err", path |-> <<>>, err |-> msg]]

\* anyhow::bail!(msg) and the `?` of lines 111 and 114: return Err(msg)
Bail(l, msg) ==
    [l EXCEPT !.pc = "done",
              !.result = [status |-> "err", path |-> <<>>, err |-> msg]]

At(c, label) == locals[c].pc = label

Did(l, step) == [l EXCEPT !.steps = Append(@, step)]

\* The call has passed h to the release function fn
Rel(l, fn, h) == [l EXCEPT !.released = Append(@, [fn |-> fn, h |-> h])]

----------------------------------------------------------------------------
(* extract_icon, one action per step *)

\* ResolveFailed without the is_null test
ResolveFailed_CountOnly(extracted, hicon) == extracted = 0

\* line 48: the resolution is rejected
ResolveFailed(extracted, hicon) == extracted = 0 \/ hicon = NULL

\* PixelsLen with three bytes per pixel
PixelsLen_ThreeBytes(width, height) == width * height * 3

\* line 90: vec![0u8; width * height * 4]
PixelsLen(width, height) == (width * height * 4) % 2^UsizeBits

\* ReleaseDC left out
ReleaseDC_Skipped(hs, c, hdc) == hs

\* line 102: ReleaseDC(null_mut(), hdc)
ReleaseDC(hs, c, hdc) == OsRelease(hs, c, hdc, "dc")

\* lines 56, 67, 105, 116: DestroyIcon(hicon)
DestroyIcon(hs, c, hicon) == OsRelease(hs, c, hicon, "icon")

\* lines 118-119: DeleteObject(hbm)
DeleteObject(hs, c, hbm) == OsRelease(hs, c, hbm, "bitmap")

\* lines 20-30
Validate(c) ==
    /\ At(c, "validate")
    /\ LET l == Did(locals[c], "validate")
       IN  locals' = [locals EXCEPT ![c] =
                IF ~Satisfied(l.file_path)
                THEN Bail(l, ErrNotValidExecutable)
                ELSE [l EXCEPT !.pc = "extract"]]
    /\ UNCHANGED <<handles, fs, main>>

\* lines 32-52
ExtractIconExW(c) ==
    /\ At(c, "extract")
    /\ \E o \in OsExtractIconExW(handles, c, locals[c].file_path) :
          LET l == [Did(locals[c], "extract") EXCEPT !.extracted = o.extracted,
                                                     !.hicon_large = o.hicon]
          IN  /\ handles' = o.hs
              /\ locals' = [locals EXCEPT ![c] =
                    IF ResolveFailed(o.extracted, o.hicon)
                    THEN Bail(l, ErrExtractIconExW)
                    ELSE [l EXCEPT !.pc = "iconinfo", !.hicon = o.hicon]]
    /\ UNCHANGED <<fs, main>>

\* lines 54-58
GetIconInfo(c) ==
    /\ At(c, "iconinfo")
    /\ \E o \in OsGetIconInfo(handles, c, locals[c].hicon) :
          LET l == [Did(locals[c], "iconinfo") EXCEPT
                       !.icon_info = [hbmColor |-> o.hbmColor, hbmMask |-> o.hbmMask]]
              hs == OsUse(o.hs, c, l.hicon, "icon")
          IN  IF o.ok = 0
              THEN /\ handles' = DestroyIcon(hs, c, l.hicon)
                   /\ locals' = [locals EXCEPT ![c] =
                         Bail(Rel(l, "DestroyIcon", l.hicon), ErrGetIconInfo)]
              ELSE /\ handles' = hs
                   /\ locals' = [locals EXCEPT ![c] = [l EXCEPT !.pc = "getobject"]]
    /\ UNCHANGED <<fs, main>>

\* lines 60-69
GetObjectW(c) ==
    /\ At(c, "getobject")
    /\ \E o \in OsGetObjectW(handles, locals[c].icon_info.hbmColor) :
          LET l == [Did(locals[c], "getobject") EXCEPT
                       !.bmp = [bmWidth |-> o.bmWidth, bmHeight |-> o.bmHeight]]
              hs == OsUse(handles, c, l.icon_info.hbmColor, "bitmap")
          IN  IF o.ok = 0
              THEN /\ handles' = DestroyIcon(hs, c, l.hicon)
                   /\ locals' = [locals EXCEPT ![c] =
                         Bail(Rel(l, "DestroyIcon", l.hicon), ErrGetObjectW)]
              ELSE /\ handles' = hs
                   /\ locals' = [locals EXCEPT ![c] = [l EXCEPT !.pc = "alloc"]]
    /\ UNCHANGED <<fs, main>>

\* lines 70-90: the geometry, the requested layout and the destination buffer
AllocPixels(c) ==
    /\ At(c, "alloc")
    /\ LET l == Did(locals[c], "alloc")
           width == AsUsize(l.bmp.bmWidth)
           height == AsUsize(l.bmp.bmHeight)
       IN  locals' = [locals EXCEPT ![c] =
                [l EXCEPT !.pc = "getdc",
                          !.width = width,
                          !.height = height,
                          !.bmp_info = [biWidth |-> AsI32(width),
                                        biHeight |-> -AsI32(height),
                                        biBitCount |-> 32],
                          !.pixels = PixelsLen(width, height)]]
    /\ UNCHANGED <<handles, fs, main>>

\* GetDC whose device context is given back before it is used
GetDC_ReleasedAtOnce(c) ==
    /\ At(c, "getdc")
    /\ \E o \in OsGetDC(handles, c) :
          /\ handles' = ReleaseDC(o.hs, c, o.hdc)
          /\ locals' = [locals EXCEPT ![c] =
                [Did(locals[c], "getdc") EXCEPT !.pc = "getdibits", !.hdc = o.hdc]]
    /\ UNCHANGED <<fs, main>>

\* line 92
GetDC(c) ==
    /\ At(c, "getdc")
    /\ \E o \in OsGetDC(handles, c) :
          /\ handles' = o.hs
          /\ locals' = [locals EXCEPT ![c] =
                [Did(locals[c], "getdc") EXCEPT !.pc = "getdibits", !.hdc = o.hdc]]
    /\ UNCHANGED <<fs, main>>

\* lines 93-101
GetDIBits(c) ==
    /\ At(c, "getdibits")
    /\ \E r \in OsGetDIBits(handles, locals[c].hdc, locals[c].icon_info.hbmColor,
                            AsU32(locals[c].height)) :
          locals' = [locals EXCEPT ![c] =
                [Did(locals[c], "getdibits") EXCEPT !.pc = "releasedc", !.ret = r]]
    /\ handles' = OsUse(OsUse(handles, c, locals[c].hdc, "dc"),
                        c, locals[c].icon_info.hbmColor, "bitmap")
    /\ UNCHANGED <<fs, main>>

\* line 102
ReleaseDCStep(c) ==
    /\ At(c, "releasedc")
    /\ handles' = ReleaseDC(handles, c, locals[c].hdc)
    /\ locals' = [locals EXCEPT ![c] =
            [Rel(Did(locals[c], "releasedc"), "ReleaseDC", locals[c].hdc)
                EXCEPT !.pc = "checkret"]]
    /\ UNCHANGED <<fs, main>>

\* lines 104-107
CheckRet(c) ==
    /\ At(c, "checkret")
    /\ LET l == Did(locals[c], "checkret")
       IN  IF l.ret = 0
           THEN /\ handles' = DestroyIcon(handles, c, l.hicon)
                /\ locals' = [locals EXCEPT ![c] =
                      Bail(Rel(l, "DestroyIcon", l.hicon), ErrGetDIBits)]
           ELSE /\ handles' = handles
                /\ locals' = [locals EXCEPT ![c] = [l EXCEPT !.pc = "fromraw"]]
    /\ UNCHANGED <<fs, main>>

\* lines 109-111
Decode(c) ==
    /\ At(c, "fromraw")
    /\ LET l == Did(locals[c], "fromraw")
           img == FromRaw(AsU32(l.width), AsU32(l.height), l.pixels)
       IN  locals' = [locals EXCEPT ![c] =
                IF ~img.some
                THEN Bail(l, ErrImageBuffer)
                ELSE [l EXCEPT !.pc = "save", !.img = img]]
    /\ UNCHANGED <<handles, fs, main>>

\* lines 113-114
Save(c) ==
    /\ At(c, "save")
    /\ \E outcome \in SaveOutcomes :
          LET l == Did(locals[c], "save")
          IN  /\ fs' = OsSave(fs, c, l.output_dir, l.img, outcome)
              /\ locals' = [locals EXCEPT ![c] =
                    IF outcome # "ok"
                    THEN Bail(l, ErrSave)
                    ELSE [l EXCEPT !.pc = "destroyicon"]]
    /\ UNCHANGED <<handles, main>>

\* line 116
DestroyIconStep(c) ==
    /\ At(c, "destroyicon")
    /\ handles' = DestroyIcon(handles, c, locals[c].hicon)
    /\ locals' = [locals EXCEPT ![c] =
            [Rel(Did(locals[c], "destroyicon"), "DestroyIcon", locals[c].hicon)
                EXCEPT !.pc = "deletecolor"]]
    /\ UNCHANGED <<fs, main>>

\* line 118
DeleteColor(c) ==
    /\ At(c, "deletecolor")
    /\ handles' = DeleteObject(handles, c, locals[c].icon_info.hbmColor)
    /\ locals' = [locals EXCEPT ![c] =
            [Rel(Did(locals[c], "deletecolor"), "DeleteObject",
                 locals[c].icon_info.hbmColor)
                EXCEPT !.pc = "deletemask"]]
    /\ UNCHANGED <<fs, main>>

\* DeleteMask that deletes the color bitmap a second time
DeleteMask_ColorAgain(c) ==
    /\ At(c, "deletemask")
    /\ handles' = DeleteObject(handles, c, locals[c].icon_info.hbmColor)
    /\ LET l == Rel(Did(locals[c], "deletemask"), "DeleteObject",
                    locals[c].icon_info.hbmColor)
       IN  locals' = [locals EXCEPT ![c] =
                [l EXCEPT !.pc = "done",
                          !.result = [status |-> "ok",
                                      path |-> Join(l.output_dir, "icon.png"),
                                      err |-> ""]]]
    /\ UNCHANGED <<fs, main>>

\* lines 119-121
DeleteMask(c) ==
    /\ At(c, "deletemask")
    /\ handles' = DeleteObject(handles, c, locals[c].icon_info.hbmMask)
    /\ LET l == Rel(Did(locals[c], "deletemask"), "DeleteObject",
                    locals[c].icon_info.hbmMask)
       IN  locals' = [locals EXCEPT ![c] =
                [l EXCEPT !.pc = "done",
                          !.result = [status |-> "ok",
                                      path |-> Join(l.output_dir, "icon.png"),
                                      err |-> ""]]]
    /\ UNCHANGED <<fs, main>>

\* A host process calls extract_icon(file, dir); calls run one after another
\* (section 5 of the design: single-threaded, synchronous).
Call(c) ==
    /\ main.pc = "off"
    /\ At(c, "idle")
    /\ \A d \in Calls : d < c => At(d, "done")
    /\ \E file \in Files, dir \in OutputDirs :
          locals' = [locals EXCEPT ![c] = Entered(file, dir)]
    /\ UNCHANGED <<handles, fs, main>>

----------------------------------------------------------------------------
(* main *)

\* args[0] of the process is Args[1] here, the path argument is Args[2]
Program == [name |-> <<"i", ".", "e", "x", "e">>, exists |-> TRUE, icon |-> NoIcon]

ArgLists ==
    {<<Program>>}
    \cup {<<Program, f>> : f \in Files}
    \cup {<<Program, f, Program>> : f \in Files}

NoOutput == [text |-> "", path |-> <<>>]

MainOff ==
    [pc |-> "off", args |-> <<>>, temp_dir |-> "", icon_path |-> <<>>,
     exit_code |-> 0, stdout |-> NoOutput, stderr |-> NoOutput, viewer |-> "none"]

\* `return Ok(())` of lines 137 and 148: exit status 0
ExitOk(m) == [m EXCEPT !.pc = "exit", !.exit_code = 0]

\* main returns Err: the runtime prints the error to stderr and exits with 1
ExitErr(m, msg) ==
    [m EXCEPT !.pc = "exit", !.exit_code = 1,
              !.stderr = [text |-> msg, path |-> <<>>]]

\* MainAfterViewer with the viewer's failure propagated
MainAfterViewer_Propagated(m, status) ==
    IF status = "failed"
    THEN [m EXCEPT !.pc = "exit", !.exit_code = 1, !.viewer = status]
    ELSE [m EXCEPT !.pc = "print", !.viewer = status]

\* line 145: the viewer's exit status is discarded
MainAfterViewer(m, status) == [m EXCEPT !.pc = "print", !.viewer = status]

\* lines 126-140
MainArgs ==
    /\ main.pc = "start"
    /\ main' = IF Len(main.args) < 2
               THEN ExitOk([main EXCEPT !.stderr = [text |-> "Usage", path |-> <<>>]])
               ELSE [main EXCEPT !.pc = "tempdir"]
    /\ UNCHANGED <<locals, handles, fs>>

\* lines 141-142: a new, empty directory, or an error
MainTempdir ==
    /\ main.pc = "tempdir"
    /\ \E created \in BOOLEAN :
          main' = IF created
                  THEN [main EXCEPT !.pc = "extract", !.temp_dir = "tmp"]
                  ELSE ExitErr(main, "tempdir")
    /\ UNCHANGED <<locals, handles, fs>>

\* line 144: the call
MainExtract ==
    /\ main.pc = "extract"
    /\ At(1, "idle")
    /\ locals' = [locals EXCEPT ![1] = Entered(main.args[2], main.temp_dir)]
    /\ main' = [main EXCEPT !.pc = "extracting"]
    /\ UNCHANGED <<handles, fs>>

\* line 144: the return and its `?`
MainExtractReturn ==
    /\ main.pc = "extracting"
    /\ At(1, "done")
    /\ main' = IF locals[1].result.status = "err"
               THEN ExitErr(main, locals[1].result.err)
               ELSE [main EXCEPT !.pc = "viewer",
                                 !.icon_path = locals[1].result.path]
    /\ UNCHANGED <<locals, handles, fs>>

\* line 145
MainViewer ==
    /\ main.pc = "viewer"
    /\ \E status \in {"launched", "failed"} :
          main' = MainAfterViewer(main, status)
    /\ UNCHANGED <<locals, handles, fs>>

\* lines 146-148
MainPrint ==
    /\ main.pc = "print"
    /\ main' = ExitOk([main EXCEPT !.stdout = [text |-> "Icon extracted to: ",
                                               path |-> main.icon_path]])
    /\ UNCHANGED <<locals, handles, fs>>

----------------------------------------------------------------------------
(* Specifications *)

\* A host process that calls extract_icon MaxCalls times, one after another
Init ==
    /\ locals = [c \in Calls |-> IdleLocals]
    /\ handles = <<>>
    /\ fs = [d \in Dirs |-> Absent]
    /\ main = MainOff

Next ==
    \E c \in Calls :
        \/ Call(c)
        \/ Validate(c)
        \/ ExtractIconExW(c)
        \/ GetIconInfo(c)
        \/ GetObjectW(c)
        \/ AllocPixels(c)
        \/ GetDC(c)
        \/ GetDIBits(c)
        \/ ReleaseDCStep(c)
        \/ CheckRet(c)
        \/ Decode(c)
        \/ Save(c)
        \/ DestroyIconStep(c)
        \/ DeleteColor(c)
        \/ DeleteMask(c)

Spec == Init /\ [][Next]_vars

\* The command-line program, started with any argument list of ArgLists
InitMain ==
    /\ locals = [c \in Calls |-> IdleLocals]
    /\ handles = <<>>
    /\ fs = [d \in Dirs |-> Absent]
    /\ \E a \in ArgLists : main = [MainOff EXCEPT !.pc = "start", !.args = a]

NextMain ==
    \/ MainArgs
    \/ MainTempdir
    \/ MainExtract
    \/ MainExtractReturn
    \/ MainViewer
    \/ MainPrint
    \/ \E c \in Calls :
        \/ Validate(c)
        \/ ExtractIconExW(c)
        \/ GetIconInfo(c)
        \/ GetObjectW(c)
        \/ AllocPixels(c)
        \/ GetDC(c)
        \/ GetDIBits(c)
        \/ ReleaseDCStep(c)
        \/ CheckRet(c)
        \/ Decode(c)
        \/ Save(c)
        \/ DestroyIconStep(c)
        \/ DeleteColor(c)
        \/ DeleteMask(c)

SpecMain == InitMain /\ [][NextMain]_vars

\* The decode step alone, on every geometry up to MaxDim x MaxDim and every
\* buffer length up to MaxSlack bytes more than the geometry needs
DecodeInput(w, h, n) ==
    [IdleLocals EXCEPT !.pc = "fromraw", !.width = w, !.height = h, !.pixels = n]

InitDecode ==
    /\ \E w \in 1..MaxDim, h \in 1..MaxDim :
          \E n \in 0..(w * h * 4 + MaxSlack) :
             locals = [c \in Calls |-> IF c = 1 THEN DecodeInput(w, h, n)
                                                ELSE IdleLocals]
    /\ handles = <<>>
    /\ fs = [d \in Dirs |-> Absent]
    /\ main = MainOff

NextDecode == \E c \in Calls : Decode(c)

SpecDecode == InitDecode /\ [][NextDecode]_vars

----------------------------------------------------------------------------
(* Vocabulary of the properties *)

Done(c) == locals[c].pc = "done"
Failed(c) == Done(c) /\ locals[c].result.status = "err"
Succeeded(c) == Done(c) /\ locals[c].result.status = "ok"

\* The call has executed the step
Ran(c, step) == \E i \in 1..Len(locals[c].steps) : locals[c].steps[i] = step

\* The last step the call executed
LastStep(c) == locals[c].steps[Len(locals[c].steps)]

\* The handles of a kind that the OS gave to the call
OwnedBy(c, kind) ==
    {h \in 1..Len(handles) : handles[h].owner = c /\ handles[h].kind = kind}

AllOwnedBy(c) == {h \in 1..Len(handles) : handles[h].owner = c}

\* The name is <stem>.<ext> with a non-empty stem and ext one of exe, EXE, eXe ...
IsExeName(name) ==
    /\ Len(name) > 4
    /\ name[Len(name) - 3] = "."
    /\ name[Len(name) - 2] \in {"e", "E"}
    /\ name[Len(name) - 1] \in {"x", "X"}
    /\ name[Len(name)] \in {"e", "E"}

----------------------------------------------------------------------------
(* Properties *)

\* C1: when a call of extract_icon has returned, every icon handle that
\* ExtractIconExW gave to it has been released by DestroyIcon exactly once,
\* whichever later step failed.  The code returns through `?` at lines 111 and
\* 114 without DestroyIcon, so this is violated when img.save fails.
C1_IconReleasedExactlyOnce ==
    \A c \in Calls :
        Done(c) => \A h \in OwnedBy(c, "icon") : handles[h].rel = 1

\* C2: when a call of extract_icon has returned, every bitmap handle that
\* GetIconInfo gave to it (color and mask) has been released by DeleteObject
\* exactly once.  The code deletes them on the success path only.
C2_BitmapsReleasedExactlyOnce ==
    \A c \in Calls :
        Done(c) => \A h \in OwnedBy(c, "bitmap") : handles[h].rel = 1

\* C3: a call whose path does not exist, or whose name does not end in a
\* case-insensitive ".exe" extension, executes the validation step only, fails
\* with the not-a-valid-executable error, is given no OS handle and writes no
\* output file.
C3_InvalidInputAcquiresNothing ==
    \A c \in Calls :
        LET l == locals[c]
        IN  (l.pc # "idle" /\ ~(l.file_path.exists /\ IsExeName(l.file_path.name)))
            => /\ AllOwnedBy(c) = {}
               /\ \A d \in Dirs : fs[d].writer # c
               /\ l.pc \in {"validate", "done"}
               /\ Done(c) => /\ l.result.status = "err"
                             /\ l.result.err = "The provided file is not a valid executable"
                             /\ l.steps = <<"validate">>

C3_Witness ==
    \E c \in Calls :
        /\ Failed(c)
        /\ locals[c].file_path.exists
        /\ locals[c].file_path.icon.present
        /\ ~IsExeName(locals[c].file_path.name)

\* C4: once ExtractIconExW has reported zero icons or given a null icon handle,
\* the call has returned an error, no handle of any kind was given to it, and
\* no step after the resolution was executed.
C4_ResolveFailureAcquiresNothing ==
    \A c \in Calls :
        LET l == locals[c]
        IN  (Ran(c, "extract") /\ (l.extracted = 0 \/ l.hicon_large = NULL))
            => /\ Failed(c)
               /\ AllOwnedBy(c) = {}
               /\ l.steps = <<"validate", "extract">>
               /\ \A d \in Dirs : fs[d].writer # c

C4_Witness ==
    \E c \in Calls :
        /\ Failed(c)
        /\ Ran(c, "extract")
        /\ locals[c].extracted = 1
        /\ locals[c].hicon_large = NULL

\* C5: when a call of extract_icon has returned an error, no icon.png, whole
\* or partial, has been written by that call.  img.save creates the file before
\* it encodes, so a failed write leaves a partial file behind.
C5_NoOutputOnFailure ==
    \A c \in Calls :
        Failed(c) => \A d \in Dirs : fs[d].writer # c

\* C6: a device context is held only between GetDC and ReleaseDC, that is
\* while the call is about to copy the pixels or has just copied them; GetDC is
\* followed at once by GetDIBits and then ReleaseDC; no context is released
\* twice, and every context has been released once when the call has returned,
\* also when GetDIBits copied zero scan lines.
C6_DeviceContextScoped ==
    \A c \in Calls :
        LET l == locals[c]
        IN  /\ \A h \in OwnedBy(c, "dc") :
                  /\ handles[h].rel <= 1
                  /\ handles[h].rel = 0 =>
                        (l.pc \in {"getdibits", "releasedc"} /\ l.hdc = h)
                  /\ Done(c) => handles[h].rel = 1
            /\ Cardinality(OwnedBy(c, "dc")) <= 1
            /\ \A i \in 1..Len(l.steps) :
                  l.steps[i] = "getdc" =>
                     /\ i + 1 <= Len(l.steps) => l.steps[i + 1] = "getdibits"
                     /\ i + 2 <= Len(l.steps) => l.steps[i + 2] = "releasedc"

C6_Witness ==
    \E c \in Calls :
        /\ Failed(c)
        /\ Ran(c, "getdibits")
        /\ locals[c].ret = 0
        /\ OwnedBy(c, "dc") # {}
        /\ \A h \in OwnedBy(c, "dc") : handles[h].rel = 1

C8_RenderDecodeRoundTrip ==
    \A c \in Calls :
        LET l == locals[c]
            icon == l.file_path.icon
        IN  /\ Ran(c, "alloc") =>
                  /\ l.width = icon.w /\ l.height = icon.h
                  /\ l.pixels = icon.w * icon.h * 4
            /\ Ran(c, "fromraw") =>
                  /\ l.img.some
                  /\ l.img.width = icon.w /\ l.img.height = icon.h
                  /\ l.img.len = icon.w * icon.h * 4
            /\ Failed(c) => l.result.err # "Failed to create ImageBuffer"
            /\ \A d \in Dirs :
                  (fs[d].writer = c /\ fs[d].state = "complete") =>
                     (fs[d].width = icon.w /\ fs[d].height = icon.h)

C8_Witness ==
    \E c \in Calls :
        /\ Succeeded(c)
        /\ locals[c].img.width # locals[c].img.height
        /\ fs[locals[c].output_dir].writer = c

\* The error kind that C9 claims for a failed call, by the step that failed
ClaimedKind(c) ==
    CASE LastStep(c) = "validate" -> "InvalidInput"
      [] LastStep(c) = "extract" ->
            IF locals[c].file_path.icon.present THEN "OsFailure" ELSE "NotFound"
      [] LastStep(c) = "fromraw" -> "InvalidBuffer"
      [] LastStep(c) = "save" -> "EncodeFailure"
      [] OTHER -> "OsFailure"

\* C9 as claimed: failures of different kinds (InvalidInput, NotFound,
\* OsFailure, InvalidBuffer, EncodeFailure) are reported with different errors,
\* so that the caller can tell the kinds apart.
C9_KindsDistinguishable ==
    \A c, d \in Calls :
        (Failed(c) /\ Failed(d) /\ ClaimedKind(c) # ClaimedKind(d))
        => locals[c].result.err # locals[d].result.err

\* C9 as amended: the error of a failed call identifies the step that failed:
\* two failed calls carry the same error exactly when they failed in the same
\* step (a failed resolution is one error, whether the file holds no icon or
\* the OS call failed).
C9_ErrorIdentifiesStep ==
    \A c, d \in Calls :
        (Failed(c) /\ Failed(d))
        => (LastStep(c) = LastStep(d) <=> locals[c].result.err = locals[d].result.err)

C9_Witness ==
    \E c, d \in Calls :
        /\ Failed(c) /\ Failed(d)
        /\ LastStep(c) = "getobject"
        /\ LastStep(d) = "iconinfo"

\* C10: when the program has exited: without a path argument it printed the
\* usage, exited with 0, started no extraction and was given no handle; with a
\* path that does not exist it exited with a non-zero status and no output file
\* exists; after a successful extraction it printed the output path and exited
\* with 0, whatever the viewer's launch gave.
C10_MainOutcomes ==
    main.pc = "exit" =>
        /\ Len(main.args) < 2 =>
              /\ main.exit_code = 0
              /\ main.stderr.text = "Usage"
              /\ \A c \in Calls : locals[c].pc = "idle"
              /\ handles = <<>>
              /\ \A d \in Dirs : fs[d] = Absent
        /\ (Len(main.args) >= 2 /\ ~main.args[2].exists) =>
              /\ main.exit_code # 0
              /\ \A d \in Dirs : fs[d] = Absent
        /\ Succeeded(1) =>
              /\ main.exit_code = 0
              /\ main.viewer \in {"launched", "failed"}
              /\ main.stdout = [text |-> "Icon extracted to: ",
                                path |-> <<main.temp_dir, "icon.png">>]

C10_Witness ==
    /\ main.pc = "exit"
    /\ Succeeded(1)
    /\ main.viewer = "failed"
    /\ main.exit_code = 0

\* The steps of extract_icon in program order; the design's states are
\* Validating (validate), Resolving (extract, iconinfo), Inspecting
\* (getobject), Rendering (alloc .. checkret), Decoding (fromraw), Encoding
\* (save) and the release on success (destroyicon .. deletemask).
StepOrder ==
    <<"validate", "extract", "iconinfo", "getobject", "alloc", "getdc",
      "getdibits", "releasedc", "checkret", "fromraw", "save",
      "destroyicon", "deletecolor", "deletemask">>

\* The steps the call has executed are the first steps of StepOrder
InOrder(c) ==
    /\ Len(locals[c].steps) <= Len(StepOrder)
    /\ locals[c].steps = SubSeq(StepOrder, 1, Len(locals[c].steps))

\* C11: the steps of a call are executed in program order only, each after
\* all the earlier ones (a call that is still running has failed in no step);
\* and a call that has failed in the resolution or in any later step has
\* released every handle it was given.  The second part is violated: the
\* failure returns release the icon handle at most, never the bitmaps.
C11_OrderedStepsAndReleaseOnFailure ==
    \A c \in Calls :
        /\ InOrder(c)
        /\ (Failed(c) /\ Ran(c, "extract")) =>
              \A h \in AllOwnedBy(c) : handles[h].rel = 1

\* One call of extract_icon, run to its return: the call is synchronous and
\* blocking, so a call that has been entered keeps taking its steps.
CallOnce == Call(1)

NextLive ==
    \/ CallOnce
    \/ \E c \in Calls :
        \/ Validate(c)
        \/ ExtractIconExW(c)
        \/ GetIconInfo(c)
        \/ GetObjectW(c)
        \/ AllocPixels(c)
        \/ GetDC(c)
        \/ GetDIBits(c)
        \/ ReleaseDCStep(c)
        \/ CheckRet(c)
        \/ Decode(c)
        \/ Save(c)
        \/ DestroyIconStep(c)
        \/ DeleteColor(c)
        \/ DeleteMask(c)

SpecLive == Init /\ [][NextLive]_vars /\ WF_vars(NextLive)

\* No step occurs twice among the steps the call has executed
NoRepeat(c) ==
    \A i, j \in 1..Len(locals[c].steps) :
        i # j => locals[c].steps[i] # locals[c].steps[j]

\* C12: no call executes a step twice; a call that has returned (Ok or Err)
\* executes nothing more; and every call that has been entered eventually
\* returns, whatever the OS and the encoder answer.
C12_TerminatesWithoutRetry ==
    /\ [](\A c \in Calls : NoRepeat(c))
    /\ [][\A c \in Calls : Done(c) => locals'[c] = locals[c]]_vars
    /\ \A c \in Calls : (locals[c].pc # "idle") ~> Done(c)

C12_Witness ==
    \E c \in Calls :
        /\ Failed(c)
        /\ LastStep(c) = "checkret"
        /\ Len(locals[c].steps) = 9

----------------------------------------------------------------------------
(* The geometry arithmetic on every positive LONG width and height *)

\* Call 1 as it stands after a successful GetObjectW on the color bitmap of a
\* w x h icon
AfterGetObjectW(w, h) ==
    [Entered([name |-> <<"a", ".", "e", "x", "e">>, exists |-> TRUE,
              icon |-> [present |-> TRUE, w |-> w, h |-> h, color |-> TRUE]],
             "out")
        EXCEPT !.pc = "alloc", !.extracted = 1, !.hicon_large = 1, !.hicon = 1,
               !.icon_info = [hbmColor |-> 2, hbmMask |-> 3],
               !.bmp = [bmWidth |-> w, bmHeight |-> h],
               !.steps = <<"validate", "extract", "iconinfo", "getobject">>]

\* The handle table of that state: the icon and its two bitmaps
HandlesAfterGetObjectW(w, h) ==
    << [HandleRec("icon", 1, w, h, TRUE) EXCEPT !.by = {1}],
       [HandleRec("bitmap", 1, w, h, TRUE) EXCEPT !.by = {1}],
       HandleRec("bitmap", 1, w, h, FALSE) >>

InitGeometry ==
    /\ \E w \in 1..LongMax, h \in 1..LongMax :
          /\ locals = [c \in Calls |-> IF c = 1 THEN AfterGetObjectW(w, h)
                                                ELSE IdleLocals]
          /\ handles = HandlesAfterGetObjectW(w, h)
    /\ fs = [d \in Dirs |-> Absent]
    /\ main = MainOff

NextGeometry ==
    \E c \in Calls :
        \/ AllocPixels(c)
        \/ GetDC(c)
        \/ GetDIBits(c)
        \/ ReleaseDCStep(c)
        \/ CheckRet(c)
        \/ Decode(c)
        \/ Save(c)
        \/ DestroyIconStep(c)
        \/ DeleteColor(c)
        \/ DeleteMask(c)

SpecGeometry == InitGeometry /\ [][NextGeometry]_vars

\* C13: once the buffer is allocated, the width and height the renderer uses
\* are positive and are the ones GetObjectW reported for the color bitmap; the
\* buffer has width * height * 4 bytes without wrap-around; the layout asks
\* for biWidth = width and biHeight = -height; GetDIBits is asked for height
\* scan lines; and the raster has that width and height.
C13_GeometryWithoutWrap ==
    \A c \in Calls :
        LET l == locals[c]
            w == l.bmp.bmWidth
            h == l.bmp.bmHeight
        IN  Ran(c, "alloc") =>
               /\ w = handles[l.icon_info.hbmColor].w
               /\ h = handles[l.icon_info.hbmColor].h
               /\ l.width > 0 /\ l.height > 0
               /\ l.width = w /\ l.height = h
               /\ l.pixels = w * h * 4
               /\ l.bmp_info.biWidth = w /\ l.bmp_info.biHeight = -h
               /\ (Ran(c, "getdibits") /\ l.ret # 0) => l.ret = h
               /\ Ran(c, "fromraw") =>
                     (l.img.some /\ l.img.width = w /\ l.img.height = h)

C13_Witness ==
    \E c \in Calls :
        /\ Ran(c, "fromraw")
        /\ locals[c].img.some
        /\ locals[c].bmp.bmWidth = LongMax
        /\ locals[c].bmp.bmHeight = LongMax

\* The state SpecGeometry starts from, for an icon size of the file system, is
\* a state of Spec
GeometryStartReached ==
    \E c \in Calls :
        /\ c = 1
        /\ locals[c] = AfterGetObjectW(2, 1)
        /\ handles = HandlesAfterGetObjectW(2, 1)

----------------------------------------------------------------------------
(* Concurrent callers.  extract_icon is a pub fn without shared Rust state:
   every value it works on is a local of its own frame (lines 25-110), so
   nothing in the code orders two calls made from different threads.  Here
   the calls of Threads run interleaved step by step, over one OS handle
   table and one file system. *)

\* Interference between calls is a matter of pairs of calls: two threads
\* call extract_icon at the same time
Threads == {c \in Calls : c <= 2}

\* the executables the concurrent callers are given: one with a 1 x 1 color icon
ConcFiles ==
    {f \in Files : f.exists /\ f.icon = SmallIcon /\ IsExeName(f.name)}

\* a thread enters extract_icon whatever the other calls are doing
CallConcurrently(c) ==
    /\ main.pc = "off"
    /\ At(c, "idle")
    /\ \E file \in ConcFiles, dir \in OutputDirs :
          locals' = [locals EXCEPT ![c] = Entered(file, dir)]
    /\ UNCHANGED <<handles, fs, main>>

NextConc ==
    \E c \in Threads :
        \/ CallConcurrently(c)
        \/ Validate(c)
        \/ ExtractIconExW(c)
        \/ GetIconInfo(c)
        \/ GetObjectW(c)
        \/ AllocPixels(c)
        \/ GetDC(c)
        \/ GetDIBits(c)
        \/ ReleaseDCStep(c)
        \/ CheckRet(c)
        \/ Decode(c)
        \/ Save(c)
        \/ DestroyIconStep(c)
        \/ DeleteColor(c)
        \/ DeleteMask(c)

SpecConc == Init /\ [][NextConc]_vars

\* the handles call c holds in its locals
Held(c) ==
    {h \in {locals[c].hicon_large, locals[c].hicon, locals[c].icon_info.hbmColor,
            locals[c].icon_info.hbmMask, locals[c].hdc} : h # NULL}

\* C14: with calls running concurrently, every handle and device context is
\* used and released only by the call that obtained it, and a call holds no
\* handle obtained by another call.
C14_ConcurrentCallsIndependent ==
    /\ \A h \in 1..Len(handles) : handles[h].by \subseteq {handles[h].owner}
    /\ \A c \in Calls : \A h \in Held(c) :
          h \in 1..Len(handles) /\ handles[h].owner = c

\* two calls hold a device context each at the same time, and one of them
\* has since released its own
C14_Witness ==
    \E c, d \in Calls :
        /\ c # d
        /\ At(c, "getdibits") /\ locals[c].hdc # NULL
        /\ Ran(d, "releasedc") /\ locals[d].hdc # NULL
        /\ locals[d].hdc > locals[c].hdc


\* every call of the sequence has been made and has returned
SequenceOver == \A c \in Calls : Done(c)

\* all calls of the sequence were given the same executable and directory
SameArguments ==
    \A c, d \in Calls :
        /\ locals[c].file_path = locals[d].file_path
        /\ locals[c].output_dir = locals[d].output_dir

\* C15: after a sequence of calls on the same executable and output
\* directory, all successful calls have returned the same path
\* <output_dir>/icon.png with the same raster dimensions, and no OS handle
\* given to any of the calls is still outstanding.  The first part holds; the
\* second is violated as soon as one call of the sequence fails after
\* GetIconInfo, or in decode or save (the leaks of C1 and C2).
C15_RepeatableAndNoHandleLeft ==
    (SequenceOver /\ SameArguments) =>
        /\ \A c, d \in Calls :
              (Succeeded(c) /\ Succeeded(d)) =>
                 /\ locals[c].result.path = locals[d].result.path
                 /\ locals[c].result.path = Join(locals[c].output_dir, "icon.png")
                 /\ locals[c].img.width = locals[d].img.width
                 /\ locals[c].img.height = locals[d].img.height
        /\ \A h \in 1..Len(handles) : handles[h].rel > 0


\* the calls of fn that call c has made, as positions of its release log
Releases(c, fn) ==
    {i \in 1..Len(locals[c].released) : locals[c].released[i].fn = fn}

\* h is a handle of that kind which the OS gave to call c
Acquired(c, h, kind) == IsHandle(handles, h, kind) /\ handles[h].owner = c

\* C16: no handle is released more than once, and none that the same call
\* did not acquire: DestroyIcon is called at most once, on the icon handle of
\* a successful resolution; DeleteObject at most once per bitmap handle, on a
\* handle of the pair GetIconInfo gave; ReleaseDC at most once, on the value
\* the preceding GetDC returned (NULL when GetDC failed, a live context of
\* this call otherwise).
C16_NoDoubleOrForeignRelease ==
    /\ \A h \in 1..Len(handles) : handles[h].rel <= 1
    /\ \A c \in Calls :
          LET l == locals[c]
              log == l.released
          IN  /\ Cardinality(Releases(c, "DestroyIcon")) <= 1
              /\ Cardinality(Releases(c, "ReleaseDC")) <= 1
              /\ \A i, j \in Releases(c, "DeleteObject") :
                    i # j => log[i].h # log[j].h
              /\ \A i \in Releases(c, "DestroyIcon") :
                    /\ Ran(c, "extract") /\ ~ResolveFailed(l.extracted, l.hicon_large)
                    /\ log[i].h = l.hicon_large
                    /\ Acquired(c, log[i].h, "icon")
              /\ \A i \in Releases(c, "DeleteObject") :
                    /\ Ran(c, "iconinfo")
                    /\ log[i].h \in {l.icon_info.hbmColor, l.icon_info.hbmMask}
                    /\ Acquired(c, log[i].h, "bitmap")
              /\ \A i \in Releases(c, "ReleaseDC") :
                    /\ Ran(c, "getdc")
                    /\ log[i].h = l.hdc
                    /\ l.hdc # NULL => Acquired(c, l.hdc, "dc")
              /\ \A i \in 1..Len(log) :
                    log[i].fn \in {"DestroyIcon", "DeleteObject", "ReleaseDC"}

\* a call that has made all four releases, and one that has passed NULL to
\* ReleaseDC after a failed GetDC
C16_Witness ==
    /\ \E c \in Calls :
          /\ Succeeded(c)
          /\ Len(locals[c].released) = 4
          /\ \A h \in AllOwnedBy(c) : handles[h].rel = 1
    /\ \E c \in Calls :
          /\ Releases(c, "ReleaseDC") # {}
          /\ locals[c].hdc = NULL


\* the position of a step in the log of call c, 0 when it has not run
StepIndex(c, step) ==
    IF Ran(c, step)
    THEN CHOOSE i \in 1..Len(locals[c].steps) : locals[c].steps[i] = step
    ELSE 0

\* C17: no step uses a handle that has been released.  GetIconInfo uses the
\* icon handle, GetObjectW and GetDIBits the color bitmap handle and GetDIBits
\* the device context, each only while the call still holds it; the device
\* context is released only after the pixel copy; and on the success path
\* the icon and bitmap handles are released only after the pixel copy and
\* the encoding.
C17_NoUseAfterRelease ==
    /\ \A h \in 1..Len(handles) : handles[h].late = 0
    /\ \A c \in Calls :
          /\ \A h \in OwnedBy(c, "dc") :
                handles[h].rel > 0 =>
                   /\ Ran(c, "getdibits")
                   /\ StepIndex(c, "getdibits") < StepIndex(c, "releasedc")
          /\ \A h \in OwnedBy(c, "icon") \cup OwnedBy(c, "bitmap") :
                (handles[h].rel > 0 /\ ~Failed(c)) =>
                   /\ Ran(c, "getdibits") /\ Ran(c, "save")
                   /\ locals[c].img.some
          /\ \A s \in {"destroyicon", "deletecolor", "deletemask"} :
                Ran(c, s) =>
                   /\ StepIndex(c, "getdibits") < StepIndex(c, s)
                   /\ StepIndex(c, "getdibits") > 0
                   /\ StepIndex(c, "save") < StepIndex(c, s)
                   /\ StepIndex(c, "save") > 0

\* a successful call: the icon, both bitmaps and the device context were all
\* used and have all been released
C17_Witness ==
    \E c \in Calls :
        /\ Succeeded(c)
        /\ \A h \in AllOwnedBy(c) : handles[h].rel = 1
        /\ \E h \in OwnedBy(c, "dc") : c \in handles[h].by
        /\ Cardinality(AllOwnedBy(c)) = 4

====
